---- MODULE Spec2Model ----
(***************************************************************************)
(* PlaywrightUtils: the helper functions of                                *)
(* src/playwright_utils/playwright_utils.py, run by one caller against a   *)
(* page whose document, location and load state are changed concurrently   *)
(* by the browser.  Every helper is a short sequence of blocking calls     *)
(* into the page (wait_for_selector, wait_for_function, click, ...); the   *)
(* browser may act between any two of them and while one of them polls.    *)
(*                                                                         *)
(* Time is counted in ticks of the wait that is in progress: `elapsed` is  *)
(* reset when a wait starts, a wait can succeed only while                 *)
(* elapsed < its timeout, and it raises TimeoutError once                  *)
(* elapsed >= its timeout.                                                 *)
(***************************************************************************)
EXTENDS Integers, Sequences, FiniteSets

\* ------------------------------------------------------------------ bounds
\* Timeouts a caller passes, in ticks: 1..MaxTimeout.
MaxTimeout == 1

\* ---------------------------------------------------------------- the page
\* The document's nodes, in document order.
Nodes == {1, 2}
\* The null handle (Python's None where a handle is expected).
NullHandle == 0

\* "p" matches every node, "#b" the second node only, "p[" is no selector.
Selectors == {"p", "#b", "p["}
ValidSelector(s) == s \in {"p", "#b"}
Matches(n, s) == (s = "p") \/ (s = "#b" /\ n = 2)

\* display: none | visibility: hidden | rendered and shown.
Styles == {"shown", "none", "vhidden"}

Urls == {"/", "/new"}
\* The load states of a document, in order: "commit", "domcontentloaded",
\* "load".

\* Text the caller writes with send_keys_safely.
FillTexts == {<<"a">>, <<" ", "a", " ">>}
\* The nodes' content when the page is opened.
InitialText(n) == IF n = 1 THEN <<" ", "a", " ">> ELSE <<"a">>
\* The nodes' "title" attribute: the second node has none.
HasAttr(n) == n = 1
AttrValue(n) == <<"t">>

VARIABLES
    doc,        \* node -> [attached, style, disabled, text]
    url,        \* the page's current location
    load,       \* the load state of the page's current document
    op,         \* the helper being run ("" before the first call)
    arg,        \* its selector_or_element argument
    txt,        \* its text argument (send_keys_safely)
    target,     \* its url argument (wait_for_url_change)
    timeout,    \* its timeout argument
    pc,         \* the page call the helper is blocked in; "idle", "done"
    element,    \* the helper's local variable `element`
    elapsed,    \* ticks since the page call in progress started
    result,     \* what the helper returned or raised
    log,        \* the page calls this helper call has completed, in order
    present     \* what the wait in progress (wait_for_selector: an attached
                \* node matching the selector; wait_for_url: the location
                \* being the url) looks for has been there ever since a
                \* moment before the wait's timeout elapsed

vars == <<doc, url, load, op, arg, txt, target, timeout, pc, element,
          elapsed, result, log, present>>

\* Playwright's default timeout, used by the page calls the helpers give none.
DefaultTimeout == MaxTimeout

\* ------------------------------------------------------- values and results
Pending == [st |-> "pending"]
Returned(v) == [st |-> "return", val |-> v]
\* A raised exception: its class, and the page call that raised it (the
\* page call's name is part of the exception's message only).
Raised(k, api) == [st |-> "raise", kind |-> k, api |-> api]

None == [some |-> FALSE]
Some(v) == [some |-> TRUE, v |-> v]

SelArg(s) == [isSel |-> TRUE, sel |-> s, h |-> NullHandle]
HandleArg(n) == [isSel |-> FALSE, sel |-> "", h |-> n]

\* ------------------------------------------------------ the page's queries
Attached(n) == doc[n].attached
\* Playwright's "visible": attached, with a box, not visibility: hidden.
Visible(n) == doc[n].attached /\ doc[n].style = "shown"
\* element.offsetParent !== null: attached and not display: none.
HasOffsetParent(n) == doc[n].attached /\ doc[n].style # "none"

\* The attached nodes a selector matches.
MatchSet(s) == {n \in Nodes : Attached(n) /\ Matches(n, s)}

Min(S) == CHOOSE x \in S : \A y \in S : x <= y

\* query_selector_all: every match, in document order.
RECURSIVE SortedSeq(_)
SortedSeq(S) == IF S = {} THEN <<>> ELSE <<Min(S)>> \o SortedSeq(S \ {Min(S)})

QuerySelectorAllResult(s) == SortedSeq(MatchSet(s))

\* wait_for_selector's condition (state "visible", the default): the first
\* match exists and is visible.
SelectorSatisfied(s) == MatchSet(s) # {} /\ Visible(Min(MatchSet(s)))

\* The predicate wait_for_element_to_be_clickable polls.
ClickablePredicate(e) ==
    e # NullHandle /\ HasOffsetParent(e) /\ ~doc[e].disabled

\* str.strip()
IsSpace(c) == c = " "

RECURSIVE LStrip(_)
LStrip(s) == IF s # <<>> /\ IsSpace(Head(s)) THEN LStrip(Tail(s)) ELSE s

RECURSIVE RStrip(_)
RStrip(s) ==
    IF s # <<>> /\ IsSpace(s[Len(s)]) THEN RStrip(SubSeq(s, 1, Len(s) - 1)) ELSE s

Strip(s) == RStrip(LStrip(s))

\* A fill that types after the content it finds.
FillContentAppend(old, t) == old \o t

\* element.fill(text): the content is replaced.
FillContent(old, t) == t

\* ------------------------------------------------------------- the helpers
Ops == {"wait_for_element", "wait_for_all_elements",
        "wait_for_element_to_be_clickable", "wait_for_url_change",
        "click_element_safely", "send_keys_safely", "get_element_text",
        "get_element_attribute", "check_element_exist"}

\* The helpers that work on the document (wait_for_url_change works on the
\* page's location and load state).
DocOps == Ops \ {"wait_for_url_change"}

\* The helpers that run wait_for_element_to_be_clickable.
ClickableOps == {"wait_for_element_to_be_clickable", "click_element_safely",
                 "check_element_exist"}

\* What follows a wait_for_selector that returned.
AfterLocate(o) ==
    CASE o = "wait_for_element" -> "done"
      [] o = "wait_for_all_elements" -> "qsa"
      [] o \in ClickableOps -> "wff"
      [] o = "send_keys_safely" -> "fill"
      [] o = "get_element_text" -> "text"
      [] o = "get_element_attribute" -> "attr"

\* A helper that keeps the element of the call before and skips resolving
\* the selector when it has one.
FirstStepCached(o, a) ==
    IF o = "wait_for_url_change" THEN [pc |-> "wfu", element |-> NullHandle]
    ELSE IF a.isSel
         THEN (IF element # NullHandle /\ AfterLocate(o) # "done"
               THEN [pc |-> AfterLocate(o), element |-> element]
               ELSE [pc |-> "wfs", element |-> NullHandle])
    ELSE [pc |-> "fill", element |-> a.h]

\* The first page call of a helper and its local `element` on entry.
FirstStep(o, a) ==
    IF o = "wait_for_url_change" THEN [pc |-> "wfu", element |-> NullHandle]
    ELSE IF a.isSel THEN [pc |-> "wfs", element |-> NullHandle]
    ELSE [pc |-> "fill", element |-> a.h]

\* What follows wait_for_element_to_be_clickable's return.
AfterClickable(o) == IF o = "click_element_safely" THEN "click" ELSE "done"

\* wait_for_url_change without its wait_for_load_state.
AfterUrlSkipLoadState == "done"

\* What follows page.wait_for_url's return in wait_for_url_change.
AfterUrl == "wls"

\* An except clause that names TimeoutError alone.
CatchesTimeoutOnly(o, kind) == o = "check_element_exist" /\ kind = "TimeoutError"

\* check_element_exist's `except Exception` catches every exception class.
Catches(o, kind) == o = "check_element_exist"

\* A helper's outcome when a page call raises.
Fail(o, exc) == IF Catches(o, exc.kind) THEN Returned(FALSE) ELSE exc

\* get_element_text's return expression.
GetElementTextResult(e) == IF e # NullHandle THEN Some(Strip(doc[e].text)) ELSE None

\* get_element_attribute's return expression.
GetElementAttributeResult(e) ==
    IF e # NullHandle THEN (IF HasAttr(e) THEN Some(AttrValue(e)) ELSE None) ELSE None

Snap(n) == [attached |-> doc[n].attached, style |-> doc[n].style,
            disabled |-> doc[n].disabled]

Event(api, n) == [api |-> api, node |-> n, snap |-> Snap(n)]

\* ------------------------------------------------------------------- Init
Init ==
    /\ doc = [n \in Nodes |-> [attached |-> FALSE, style |-> "shown",
                               disabled |-> FALSE, text |-> InitialText(n)]]
    /\ url = "/"
    /\ load = "load"
    /\ op = ""
    /\ arg = SelArg("p")
    /\ txt = <<>>
    /\ target = "/"
    /\ timeout = 1
    /\ pc = "idle"
    /\ element = NullHandle
    /\ elapsed = 0
    /\ result = Pending
    /\ log = <<>>
    /\ present = FALSE

\* ------------------------------------------------------------ the browser
pageVars == <<url, load>>
callVars == <<op, arg, txt, target, timeout, pc, element, elapsed, result, log>>

\* `present` follows the document while wait_for_selector polls.
PresentAfter(d) ==
    IF pc = "wfs"
    THEN (\E n \in Nodes : d[n].attached /\ Matches(n, arg.sel))
         /\ (present \/ elapsed < timeout)
    ELSE present

\* `present` follows the location while wait_for_url polls.
PresentAfterNavigate(u) ==
    IF pc = "wfu" THEN u = target /\ (present \/ elapsed < timeout) ELSE present

SetDoc(d) == /\ d # doc
             /\ doc' = d
             /\ present' = PresentAfter(d)
             /\ UNCHANGED <<pageVars, callVars>>

Attach(n) == SetDoc([doc EXCEPT ![n].attached = TRUE])
Detach(n) == SetDoc([doc EXCEPT ![n].attached = FALSE])
SetStyle(n, s) == SetDoc([doc EXCEPT ![n].style = s])
SetDisabled(n, b) == SetDoc([doc EXCEPT ![n].disabled = b])

Navigate(u) ==
    /\ url' = u
    /\ load' = "commit"
    /\ <<url', load'>> # <<url, load>>
    /\ present' = PresentAfterNavigate(u)
    /\ UNCHANGED <<doc, callVars>>

LoadProgress ==
    /\ load # "load"
    /\ load' = IF load = "commit" THEN "domcontentloaded" ELSE "load"
    /\ UNCHANGED <<doc, url, callVars, present>>

\* The limit of the wait in progress.
Limit == IF pc \in {"wfs", "wff", "wfu"} THEN timeout ELSE DefaultTimeout

Waiting == pc \in {"wfs", "wff", "wfu", "wls", "click", "fill"}

\* The page call in progress can end now: what it waits for is there (or,
\* for wait_for_selector, click and fill, the call raises at once).  The
\* page polls far more often than a tick.
CanEnd ==
    CASE pc = "wfs" -> ~ValidSelector(arg.sel) \/ SelectorSatisfied(arg.sel)
      [] pc = "wff" -> ClickablePredicate(element)
      [] pc = "wfu" -> url = target /\ load = "load"
      [] pc = "wls" -> load \in {"domcontentloaded", "load"}
      [] pc \in {"click", "fill"} ->
            ~Attached(element) \/ (Visible(element) /\ ~doc[element].disabled)
      [] OTHER -> FALSE

Tick ==
    /\ Waiting
    /\ elapsed < Limit
    /\ ~CanEnd
    /\ elapsed' = elapsed + 1
    /\ UNCHANGED <<doc, pageVars, op, arg, txt, target, timeout, pc, element,
                   result, log, present>>

\* ---------------------------------------------------------------- a call
Begin(o, a, t, u, to) ==
    /\ pc \in {"idle", "done"}
    /\ op' = o
    /\ arg' = a
    /\ txt' = t
    /\ target' = u
    /\ timeout' = to
    /\ pc' = FirstStep(o, a).pc
    /\ element' = FirstStep(o, a).element
    /\ elapsed' = 0
    /\ result' = Pending
    /\ log' = <<>>
    /\ present' = IF o = "wait_for_url_change" THEN url = u
                   ELSE a.isSel /\ MatchSet(a.sel) # {}
    /\ UNCHANGED <<doc, pageVars>>

\* A call of one of the helpers that work on the document.
Call ==
    \E to \in 1..MaxTimeout :
        \/ \E o \in DocOps \ {"send_keys_safely"}, s \in Selectors :
                Begin(o, SelArg(s), <<>>, "/", to)
        \/ \E s \in Selectors, t \in FillTexts :
                Begin("send_keys_safely", SelArg(s), t, "/", to)
        \/ \E n \in Nodes, t \in FillTexts :
                Begin("send_keys_safely", HandleArg(n), t, "/", to)

\* A call of wait_for_url_change.
CallUrl ==
    \E to \in 1..MaxTimeout, u \in Urls :
        Begin("wait_for_url_change", SelArg("p"), <<>>, u, to)

\* The helper ends: it returns r or raises r.
Finish(r) ==
    /\ pc' = "done"
    /\ result' = r
    /\ elapsed' = 0

\* The helper goes on to its next page call.
Goto(p) ==
    /\ pc' = p
    /\ elapsed' = 0
    /\ UNCHANGED result

Raise(exc) == Finish(Fail(op, exc))

\* page.wait_for_selector(selector, timeout=timeout) returns the first match.
WaitForSelectorOk ==
    /\ pc = "wfs"
    /\ ValidSelector(arg.sel)
    /\ elapsed < timeout
    /\ SelectorSatisfied(arg.sel)
    /\ LET h == Min(MatchSet(arg.sel)) IN
        /\ element' = h
        /\ log' = Append(log, Event("wait_for_selector", h))
        /\ IF AfterLocate(op) = "done" THEN Finish(Returned(h))
                                       ELSE Goto(AfterLocate(op))
    /\ UNCHANGED <<doc, pageVars, op, arg, txt, target, timeout, present>>

WaitForSelectorTimeout ==
    /\ pc = "wfs"
    /\ ValidSelector(arg.sel)
    /\ elapsed >= timeout
    /\ Raise(Raised("TimeoutError", "wait_for_selector"))
    /\ UNCHANGED <<doc, pageVars, op, arg, txt, target, timeout, element, log,
                   present>>

\* A string that is no selector: the page call raises at once.
WaitForSelectorInvalid ==
    /\ pc = "wfs"
    /\ ~ValidSelector(arg.sel)
    /\ Raise(Raised("Error", "wait_for_selector"))
    /\ UNCHANGED <<doc, pageVars, op, arg, txt, target, timeout, element, log,
                   present>>

\* page.query_selector_all(selector)
QuerySelectorAll ==
    /\ pc = "qsa"
    /\ log' = Append(log, [api |-> "query_selector_all"])
    /\ Finish(Returned(QuerySelectorAllResult(arg.sel)))
    /\ UNCHANGED <<doc, pageVars, op, arg, txt, target, timeout, element,
                   present>>

\* page.wait_for_function(predicate, arg=element, timeout=timeout)
WaitForFunctionOk ==
    /\ pc = "wff"
    /\ elapsed < timeout
    /\ ClickablePredicate(element)
    /\ log' = Append(log, Event("wait_for_function", element))
    /\ IF AfterClickable(op) = "done"
       THEN Finish(Returned(IF op = "check_element_exist" THEN TRUE ELSE element))
       ELSE Goto(AfterClickable(op))
    /\ UNCHANGED <<doc, pageVars, op, arg, txt, target, timeout, element,
                   present>>

\* A readiness wait whose timeout is swallowed: the element is returned.
WaitForFunctionTimeoutReturns ==
    /\ pc = "wff"
    /\ elapsed >= timeout
    /\ Finish(Returned(element))
    /\ UNCHANGED <<doc, pageVars, op, arg, txt, target, timeout, element, log,
                   present>>

WaitForFunctionTimeout ==
    /\ pc = "wff"
    /\ elapsed >= timeout
    /\ Raise(Raised("TimeoutError", "wait_for_function"))
    /\ UNCHANGED <<doc, pageVars, op, arg, txt, target, timeout, element, log,
                   present>>

\* element.click(): a detached node raises at once; the click is dispatched
\* once the node is visible and enabled; otherwise the call keeps waiting.
\* A click that is dispatched on a detached node and reported as done.
ClickDetachedDispatches ==
    /\ pc = "click"
    /\ ~Attached(element)
    /\ log' = Append(log, Event("click", element))
    /\ Finish(Returned(None))
    /\ UNCHANGED <<doc, pageVars, op, arg, txt, target, timeout, element,
                   present>>

ClickDetached ==
    /\ pc = "click"
    /\ ~Attached(element)
    /\ Raise(Raised("Error", "click"))
    /\ UNCHANGED <<doc, pageVars, op, arg, txt, target, timeout, element, log,
                   present>>

ClickDispatch ==
    /\ pc = "click"
    /\ elapsed < DefaultTimeout
    /\ Visible(element) /\ ~doc[element].disabled
    /\ log' = Append(log, Event("click", element))
    /\ Finish(Returned(None))
    /\ UNCHANGED <<doc, pageVars, op, arg, txt, target, timeout, element,
                   present>>

ClickTimeout ==
    /\ pc = "click"
    /\ Attached(element)
    /\ elapsed >= DefaultTimeout
    /\ Raise(Raised("TimeoutError", "click"))
    /\ UNCHANGED <<doc, pageVars, op, arg, txt, target, timeout, element, log,
                   present>>

\* element.fill(text): as click, and the node's content becomes text.
FillDetached ==
    /\ pc = "fill"
    /\ ~Attached(element)
    /\ Raise(Raised("Error", "fill"))
    /\ UNCHANGED <<doc, pageVars, op, arg, txt, target, timeout, element, log,
                   present>>

FillWrite ==
    /\ pc = "fill"
    /\ elapsed < DefaultTimeout
    /\ Visible(element) /\ ~doc[element].disabled
    /\ doc' = [doc EXCEPT ![element].text = FillContent(@, txt)]
    /\ log' = Append(log, Event("fill", element))
    /\ Finish(Returned(None))
    /\ UNCHANGED <<pageVars, op, arg, txt, target, timeout, element, present>>

FillTimeout ==
    /\ pc = "fill"
    /\ Attached(element)
    /\ elapsed >= DefaultTimeout
    /\ Raise(Raised("TimeoutError", "fill"))
    /\ UNCHANGED <<doc, pageVars, op, arg, txt, target, timeout, element, log,
                   present>>

\* element.inner_text().strip() if element else None
InnerText ==
    /\ pc = "text"
    /\ log' = Append(log, Event("inner_text", element))
    /\ Finish(Returned(GetElementTextResult(element)))
    /\ UNCHANGED <<doc, pageVars, op, arg, txt, target, timeout, element,
                   present>>

\* element.get_attribute(attribute) if element else None
GetAttribute ==
    /\ pc = "attr"
    /\ log' = Append(log, Event("get_attribute", element))
    /\ Finish(Returned(GetElementAttributeResult(element)))
    /\ UNCHANGED <<doc, pageVars, op, arg, txt, target, timeout, element,
                   present>>

\* page.wait_for_url(url, timeout=timeout): the location is url and its
\* document has fired load (wait_until's default).
WaitForUrlOk ==
    /\ pc = "wfu"
    /\ elapsed < timeout
    /\ url = target /\ load = "load"
    /\ log' = Append(log, [api |-> "wait_for_url", url |-> url, load |-> load])
    /\ IF AfterUrl = "done" THEN Finish(Returned(None)) ELSE Goto(AfterUrl)
    /\ UNCHANGED <<doc, pageVars, op, arg, txt, target, timeout, element,
                   present>>

WaitForUrlTimeout ==
    /\ pc = "wfu"
    /\ elapsed >= timeout
    /\ Raise(Raised("TimeoutError", "wait_for_url"))
    /\ UNCHANGED <<doc, pageVars, op, arg, txt, target, timeout, element, log,
                   present>>

\* page.wait_for_load_state("domcontentloaded")
WaitForLoadStateOk ==
    /\ pc = "wls"
    /\ elapsed < DefaultTimeout
    /\ load \in {"domcontentloaded", "load"}
    /\ log' = Append(log, [api |-> "wait_for_load_state", url |-> url,
                           load |-> load])
    /\ Finish(Returned(None))
    /\ UNCHANGED <<doc, pageVars, op, arg, txt, target, timeout, element,
                   present>>

WaitForLoadStateTimeout ==
    /\ pc = "wls"
    /\ elapsed >= DefaultTimeout
    /\ Raise(Raised("TimeoutError", "wait_for_load_state"))
    /\ UNCHANGED <<doc, pageVars, op, arg, txt, target, timeout, element, log,
                   present>>

\* ------------------------------------------------------------------- Next
\* The browser changes the document.
Browser ==
    \/ \E n \in Nodes : Attach(n)
    \/ \E n \in Nodes : Detach(n)
    \/ \E n \in Nodes, s \in Styles : SetStyle(n, s)
    \/ \E n \in Nodes, b \in BOOLEAN : SetDisabled(n, b)

\* The browser changes the page's location and load state.
Navigation ==
    \/ \E u \in Urls : Navigate(u)
    \/ LoadProgress

Helper ==
    \/ Call
    \/ WaitForSelectorOk
    \/ WaitForSelectorTimeout
    \/ WaitForSelectorInvalid
    \/ QuerySelectorAll
    \/ WaitForFunctionOk
    \/ WaitForFunctionTimeout
    \/ ClickDetached
    \/ ClickDispatch
    \/ ClickTimeout
    \/ FillDetached
    \/ FillWrite
    \/ FillTimeout
    \/ InnerText
    \/ GetAttribute

UrlHelper ==
    \/ CallUrl
    \/ WaitForUrlOk
    \/ WaitForUrlTimeout
    \/ WaitForLoadStateOk
    \/ WaitForLoadStateTimeout

\* The helpers that work on the document read and write nothing of the
\* page's location and load state, and wait_for_url_change nothing of the
\* document: the two halves are specified apart.
Next == Browser \/ Tick \/ Helper

Spec == Init /\ [][Next]_vars

NextUrl == Navigation \/ Tick \/ UrlHelper

SpecUrl == Init /\ [][NextUrl]_vars

\* ----------------------------------------------------------------- claims
Done == pc = "done"
Returns == result.st = "return"
Raises == result.st = "raise"
Last(q) == q[Len(q)]
HasEvent(api) == \E i \in 1..Len(log) : log[i].api = api

\* C1: check_element_exist never raises: it ends with a boolean, True
\* exactly when the wait_for_element_to_be_clickable it runs returned (its
\* wait_for_function completed), False when that call raised, whatever the
\* exception; and wait_for_element_to_be_clickable itself returns in exactly
\* that case.
C1_ExistsIsClickableAsBoolean ==
    /\ (Done /\ op = "check_element_exist") =>
          /\ Returns
          /\ result.val \in BOOLEAN
          /\ result.val <=> HasEvent("wait_for_function")
    /\ (Done /\ op = "wait_for_element_to_be_clickable") =>
          (Returns <=> HasEvent("wait_for_function"))

\* check_element_exist answered False because the selector is no selector:
\* the page call raised Error, not TimeoutError.
C1_Witness ==
    /\ Done /\ op = "check_element_exist"
    /\ arg.sel = "p["
    /\ result = Returned(FALSE)

\* C2: a handle wait_for_element_to_be_clickable returns is, at the moment
\* the readiness check passed, attached, visible and not disabled.
C2_ReturnedHandleIsReady ==
    (Done /\ op = "wait_for_element_to_be_clickable" /\ Returns) =>
        /\ Last(log).node = result.val
        /\ Last(log).snap.attached
        /\ Last(log).snap.style = "shown"
        /\ ~Last(log).snap.disabled

\* C3: wait_for_element with a valid selector returns a handle to a
\* matching node whenever a matching node has been attached since before
\* the timeout elapsed, and otherwise raises TimeoutError.
C3_LocatesAttachedElement ==
    (Done /\ op = "wait_for_element" /\ ValidSelector(arg.sel)) =>
        IF present
        THEN Returns /\ result.val # NullHandle /\ Matches(result.val, arg.sel)
        ELSE result = Raised("TimeoutError", "wait_for_selector")

\* C4: wait_for_all_elements never returns an empty list.
C4_NeverReturnsEmpty ==
    (Done /\ op = "wait_for_all_elements" /\ Returns) => result.val # <<>>

\* C5: click_element_safely whose element is detached when element.click()
\* runs raises Error and dispatches no click; the waits before it fail, on a
\* valid selector, with TimeoutError, another class; and a call that
\* returns has dispatched its click on an attached node.
C5_StaleClickRaises ==
    [][(op = "click_element_safely" /\ pc' = "done" /\ pc # "done") =>
          /\ (pc = "click" /\ ~Attached(element)) =>
                (result' = Raised("Error", "click") /\ log' = log)
          /\ (pc \in {"wfs", "wff"} /\ ValidSelector(arg.sel)) =>
                (result'.st = "raise" /\ result'.kind = "TimeoutError")
          /\ result'.st = "return" =>
                /\ pc = "click" /\ Attached(element)
                /\ Last(log').api = "click" /\ Last(log').node = element]_vars

\* click_element_safely raised because its element was detached after
\* wait_for_element_to_be_clickable had returned it.
C5_Witness ==
    /\ Done /\ op = "click_element_safely"
    /\ result = Raised("Error", "click")
    /\ Len(log) = 2 /\ log[2].api = "wait_for_function"
    /\ log[2].snap.attached

\* C6: send_keys_safely that returns has, given a selector, run
\* wait_for_selector and then fill on the node that returned, and, given a
\* handle, only fill on that handle; the node's content is then the text.
C6_FillWritesExactlyText ==
    (Done /\ op = "send_keys_safely" /\ Returns) =>
        /\ IF arg.isSel
           THEN /\ Len(log) = 2
                /\ log[1].api = "wait_for_selector"
                /\ log[2].api = "fill"
                /\ log[2].node = log[1].node
                /\ Matches(log[2].node, arg.sel)
           ELSE /\ Len(log) = 1
                /\ log[1].api = "fill"
                /\ log[1].node = arg.h
        /\ doc[Last(log).node].text = txt

\* send_keys_safely wrote a text to a handle whose node held other content.
C6_Witness ==
    /\ Done /\ op = "send_keys_safely" /\ Returns
    /\ ~arg.isSel /\ arg.h = 1
    /\ txt = <<"a">>

\* C7: wait_for_url_change returns only after wait_for_url saw the location
\* at the url and, after that, wait_for_load_state saw the document at
\* domcontentloaded or later; when the location has not been the url before
\* the timeout elapsed, the call raises TimeoutError from wait_for_url.
C7_UrlThenLoadState ==
    (Done /\ op = "wait_for_url_change") =>
        /\ Returns =>
              /\ Len(log) = 2
              /\ log[1].api = "wait_for_url" /\ log[1].url = target
              /\ log[2].api = "wait_for_load_state"
              /\ log[2].load \in {"domcontentloaded", "load"}
        /\ ~Returns => Raises /\ result.kind = "TimeoutError"
        /\ (log = <<>> /\ ~present) =>
              result = Raised("TimeoutError", "wait_for_url")

\* wait_for_url_change returned after a navigation that followed
\* wait_for_url: wait_for_load_state saw the new document at domcontentloaded.
C7_Witness ==
    /\ Done /\ op = "wait_for_url_change" /\ Returns
    /\ log[2].load = "domcontentloaded"

\* C8 as stated: on a valid selector, a matching attached node that never
\* becomes clickable makes wait_for_element_to_be_clickable fail in
\* wait_for_function, and that failure's class differs from the one of a
\* selector that never matched.
C8_DistinctFailureKinds ==
    (Done /\ op = "wait_for_element_to_be_clickable" /\ Raises
          /\ ValidSelector(arg.sel)) =>
        /\ (log = <<>> /\ present) => result.api = "wait_for_function"
        /\ result.api = "wait_for_function" =>
              result.kind # Raised("TimeoutError", "wait_for_selector").kind

\* C8 amended: wait_for_element_to_be_clickable on a valid selector returns
\* exactly when both waits completed; it raises TimeoutError from
\* wait_for_selector when that wait timed out and TimeoutError from
\* wait_for_function when the element was located and that wait timed out.
C8_TimeoutErrorFromEitherWait ==
    (Done /\ op = "wait_for_element_to_be_clickable" /\ ValidSelector(arg.sel)) =>
        /\ Returns <=> Len(log) = 2
        /\ Returns => result.val = log[1].node
        /\ Len(log) = 0 => result = Raised("TimeoutError", "wait_for_selector")
        /\ Len(log) = 1 => result = Raised("TimeoutError", "wait_for_function")

\* wait_for_element_to_be_clickable located a node and timed out waiting
\* for it to become clickable.
C8_Witness ==
    /\ Done /\ op = "wait_for_element_to_be_clickable"
    /\ Len(log) = 1
    /\ result = Raised("TimeoutError", "wait_for_function")

\* C9: get_element_text returns the stripped text of the element it
\* resolved, and None when wait_for_element resolved none within the timeout.
C9_TextOrNone ==
    (Done /\ op = "get_element_text" /\ ValidSelector(arg.sel)) =>
        IF log = <<>>
        THEN result = Returned(None)
        ELSE /\ Returns /\ result.val.some
             /\ result.val.v = Strip(doc[log[1].node].text)

\* C10: a helper given a selector starts with no element and an empty
\* record, and every page call it makes on an element is made on the node
\* its own wait_for_selector returned in this call.
C10_SelectorResolvedInThisCall ==
    /\ pc = "wfs" => (element = NullHandle /\ log = <<>> /\ arg.isSel)
    /\ (pc \in {"qsa", "wff", "click", "fill", "text", "attr"} /\ arg.isSel) =>
          /\ log # <<>>
          /\ log[1].api = "wait_for_selector"
          /\ log[1].node = element
    /\ (arg.isSel /\ op \in DocOps) =>
          \A i \in 1..Len(log) :
              log[i].api # "query_selector_all" =>
                  /\ log[1].api = "wait_for_selector"
                  /\ log[i].node = log[1].node

\* After an earlier send_keys_safely wrote to node 1, a call given the
\* selector "p" resolved it to node 2 and is about to click that node.
C10_Witness ==
    /\ pc = "click" /\ arg.isSel /\ arg.sel = "p"
    /\ doc[1].text = <<"a">>
    /\ element = 2

====
